---- MODULE Spec2Model ----
(***************************************************************************)
(* Model of backend/server.py: the register / login handlers, the bearer   *)
(* token gate (get_current_user) and the image handlers (upload, list,     *)
(* delete) running as concurrent requests against the users and images     *)
(* collections of the document store.                                      *)
(*                                                                         *)
(* Every `await` on the store is one atomic step of a request; the code    *)
(* between two awaits runs without interleaving (one asyncio event loop)   *)
(* and is folded into the step of the await that follows it.  Time is      *)
(* counted in minutes.                                                     *)
(***************************************************************************)
EXTENDS Integers, Sequences, FiniteSets, TLC

VARIABLES users, images, now, imgCount, pc, req, cur, resp

vars == <<users, images, now, imgCount, pc, req, cur, resp>>

\* ------------------------------------------------------------------ bounds
NumProcs == 2          \* requests in flight at the same time
MaxUsers == 2          \* user records ever inserted
MaxUploads == 2        \* image records ever inserted
MaxTime == 31          \* the clock stops here

Procs == 1..NumProcs
Usernames == {"alice", "bob"}
Emails == {"a@x.com", "b@x.com"}
Passwords == {"Pw123!", "wrongpassword"}
Salts == {"s1"}

\* Records are written with their fields in the order TLC keeps them in.

\* Python's None, where the value is otherwise a record.
None == [none |-> TRUE]

\* timedelta(minutes = n)
timedelta(n) == [minutes |-> n]

\* ------------------------------------------------------- program constants
SECRET_KEY == "your-secret-key-here-change-in-production"
ACCESS_TOKEN_EXPIRE_MINUTES == 30
DEFAULT_EXPIRE_MINUTES == 15

\* --------------------------------------------------------------- passwords
\* passlib's bcrypt: the hash carries its salt; verify re-hashes the plain
\* password with the salt of the stored hash and compares.
get_password_hash(password, salt) == <<"bcrypt", salt, password>>

verify_password(plain_password, hashed_password) ==
    hashed_password = get_password_hash(plain_password, hashed_password[2])

\* ------------------------------------------------------------------ tokens
\* `if expires_delta:` - None is falsy, and so is a timedelta of zero.
Truthy(expires_delta) == expires_delta # None /\ expires_delta.minutes # 0

\* jwt.encode(payload, key): the payload and the key that signed it.
jwt_encode(payload, key) == [payload |-> payload, sig |-> key]

create_access_token(data, expires_delta, utcnow) ==
    LET expire == IF Truthy(expires_delta)
                  THEN utcnow + expires_delta.minutes
                  ELSE utcnow + DEFAULT_EXPIRE_MINUTES
    IN  jwt_encode([sub |-> data.sub, exp |-> expire], SECRET_KEY)

\* What jwt.decode may do with `token` at time `t`: the set of its outcomes.
\* The signature is verified before the claims.  The exp claim is the expiry
\* truncated to whole seconds and the comparison at the very instant of expiry
\* differs between PyJWT releases, so at t = exp both outcomes are possible.
jwt_decode(token, key, t) ==
    IF "sig" \notin DOMAIN token THEN {[error |-> "DecodeError"]}
    ELSE IF token.sig # key THEN {[error |-> "InvalidSignatureError"]}
    ELSE IF t > token.payload.exp THEN {[error |-> "ExpiredSignatureError"]}
    ELSE IF t = token.payload.exp
         THEN {[error |-> "ExpiredSignatureError"],
               [payload |-> token.payload, error |-> ""]}
    ELSE {[payload |-> token.payload, error |-> ""]}

\* --------------------------------------------------------------- responses
\* headers: the set of header lines the exception carries.
HTTPException(status_code, detail, headers) ==
    [detail |-> detail, headers |-> headers, status |-> status_code]

WWWAuthenticate == {"WWW-Authenticate: Bearer"}

credentials_exception ==
    HTTPException(401, "Could not validate credentials", WWWAuthenticate)

UserResponse(user) ==
    [id |-> user.id, username |-> user.username, email |-> user.email]

TokenResponse(access_token, user) ==
    [status |-> 200, user |-> UserResponse(user), access_token |-> access_token,
     token_type |-> "bearer"]

\* ------------------------------------------------------------ users store
\* A query is the set of positions of the documents it matches; find_one
\* returns the first of them in insertion order, or None.
FirstIndex(matching) == CHOOSE i \in matching : \A j \in matching : i <= j

find_one(docs, matching) ==
    IF matching = {} THEN None ELSE docs[FirstIndex(matching)]

\* The lookup of register with the email left out of the query.
find_user_by_username_only(username, email) ==
    find_one(users, {i \in DOMAIN users : users[i].username = username})

find_user_by_username_or_email(username, email) ==
    find_one(users, {i \in DOMAIN users : \/ users[i].username = username
                                          \/ users[i].email = email})

find_user_by_username(username) ==
    find_one(users, {i \in DOMAIN users : users[i].username = username})

\* ----------------------------------------------------------------- gate
\* security = HTTPBearer(): a request without an Authorization header never
\* reaches get_current_user.  FastAPI answers it "Not authenticated", with
\* status 403 in the releases before 0.122 and 401 from then on.
HTTPBearer(credentials) ==
    IF credentials = None
    THEN {HTTPException(403, "Not authenticated", {}),
          HTTPException(401, "Not authenticated", WWWAuthenticate)}
    ELSE {}

\* get_current_user answering a subject that is no user with its own error.
get_current_user_reveals(credentials, t) ==
    LET decoded == jwt_decode(credentials, SECRET_KEY, t)
        Outcome(d) ==
            IF d.error # "" THEN [error |-> credentials_exception]
            ELSE IF "sub" \notin DOMAIN d.payload
                 THEN [error |-> credentials_exception]
            ELSE LET user == find_user_by_username(d.payload.sub)
                 IN  IF user = None
                     THEN [error |-> HTTPException(404, "User not found", {})]
                     ELSE [user |-> user]
    IN  {Outcome(d) : d \in decoded}

\* get_current_user: the set of its outcomes, [user |-> u] or [error |-> e].
get_current_user(credentials, t) ==
    LET decoded == jwt_decode(credentials, SECRET_KEY, t)
        Outcome(d) ==
            IF d.error # "" THEN [error |-> credentials_exception]
            ELSE IF "sub" \notin DOMAIN d.payload
                 THEN [error |-> credentials_exception]
            ELSE LET user == find_user_by_username(d.payload.sub)
                 IN  IF user = None THEN [error |-> credentials_exception]
                     ELSE [user |-> user]
    IN  {Outcome(d) : d \in decoded}

Depends(credentials, t) ==
    IF HTTPBearer(credentials) # {}
    THEN {[error |-> e] : e \in HTTPBearer(credentials)}
    ELSE get_current_user(credentials, t)

\* ---------------------------------------------------------------- requests
Idle(p) == pc[p] \in {"idle", "done"}

\* Bearer credentials a client may present: none at all, bytes that are no
\* token, and tokens signed with the service's key or with another one.
TokenExps == {30, 61}
Credentials ==
    {None, [malformed |-> TRUE]}
    \cup {jwt_encode(payload, k) :
            payload \in [sub : Usernames, exp : TokenExps] \cup [exp : TokenExps],
            k \in {SECRET_KEY, "another-key"}}

\* Registrations admitted but not yet inserted (they will insert).
Registering == {p \in Procs : pc[p] = "register_insert"}

\* ---------------------------------------------------------------- register
\* register, up to its first await: the uniqueness lookup.
register_lookup(p, username, email, password) ==
    /\ Idle(p)
    /\ Len(users) + Cardinality(Registering) < MaxUsers
    /\ req' = [req EXCEPT ![p] = [password |-> password, username |-> username,
                                   email |-> email, op |-> "register"]]
    /\ LET existing_user == find_user_by_username_or_email(username, email)
       IN  IF existing_user # None
           THEN /\ resp' = [resp EXCEPT ![p] =
                      HTTPException(400, "Username or email already registered", {})]
                /\ pc' = [pc EXCEPT ![p] = "done"]
           ELSE /\ resp' = [resp EXCEPT ![p] = None]
                /\ pc' = [pc EXCEPT ![p] = "register_insert"]
    /\ UNCHANGED <<users, images, now, imgCount, cur>>

\* register, from the insert to the response.
register_insert(p) ==
    /\ pc[p] = "register_insert"
    /\ \E salt \in Salts :
         LET user == [hashed_password |-> get_password_hash(req[p].password, salt),
                      id |-> Len(users) + 1,
                      username |-> req[p].username,
                      email |-> req[p].email]
             access_token == create_access_token([sub |-> user.username],
                                                 timedelta(ACCESS_TOKEN_EXPIRE_MINUTES), now)
         IN  /\ users' = Append(users, user)
             /\ resp' = [resp EXCEPT ![p] = TokenResponse(access_token, user)]
    /\ pc' = [pc EXCEPT ![p] = "done"]
    /\ UNCHANGED <<images, now, imgCount, req, cur>>

\* ------------------------------------------------------------------- login
login(p, username, password) ==
    /\ Idle(p)
    /\ req' = [req EXCEPT ![p] = [password |-> password, username |-> username,
                                   op |-> "login"]]
    /\ LET user == find_user_by_username(username)
       IN  IF user = None \/ ~verify_password(password, user.hashed_password)
           THEN resp' = [resp EXCEPT ![p] =
                    HTTPException(401, "Incorrect username or password", WWWAuthenticate)]
           ELSE resp' = [resp EXCEPT ![p] =
                    TokenResponse(
                        create_access_token([sub |-> user.username],
                                            timedelta(ACCESS_TOKEN_EXPIRE_MINUTES), now),
                        user)]
    /\ pc' = [pc EXCEPT ![p] = "done"]
    /\ UNCHANGED <<users, images, now, imgCount, cur>>

\* ---------------------------------------------------------- image pipeline
allowed_types == {"image/jpeg", "image/jpg", "image/png", "image/gif", "image/webp"}

MAX_FILE_SIZE == 10 * 1024 * 1024

max_size == <<1920, 1080>>

format_map(content_type) ==
    CASE content_type = "image/jpeg" -> "JPEG"
      [] content_type = "image/jpg" -> "JPEG"
      [] content_type = "image/png" -> "PNG"
      [] content_type = "image/gif" -> "GIF"
      [] content_type = "image/webp" -> "WEBP"
      [] OTHER -> "JPEG"

\* The colour modes PIL's encoder of each format writes; the GIF and WebP
\* encoders convert whatever mode they are given.
AllModes == {"RGB", "RGBA", "P", "L", "LA", "CMYK"}

SaveModes(format_name) ==
    CASE format_name = "JPEG" -> {"L", "RGB", "CMYK"}
      [] format_name = "PNG" -> {"L", "LA", "P", "RGB", "RGBA"}
      [] OTHER -> AllModes

Abs(n) == IF n < 0 THEN 0 - n ELSE n

Ceil(a, b) == IF a % b = 0 THEN a \div b ELSE (a \div b) + 1

\* Image.resize(max_size) in the place of Image.thumbnail: the picture is
\* stretched to the bounding box.
thumbnail_stretch(size, bound) == bound

\* Image.thumbnail's preserve_aspect_ratio on an image of size <<w, h>>:
\* round_aspect picks, of floor and ceil of the scaled side, the one whose
\* aspect ratio is nearer (floor on a tie), and never less than 1.
thumbnail(size, bound) ==
    LET w == size[1]
        h == size[2]
        x == bound[1]
        y == bound[2]
        xf == (y * w) \div h
        xc == Ceil(y * w, h)
        newx == IF Abs(w * y - xf * h) <= Abs(w * y - xc * h) THEN xf ELSE xc
        yf == (x * h) \div w
        yc == Ceil(x * h, w)
        newy == IF yf = 0 THEN 0
                ELSE IF Abs(w * yf - x * h) * yc <= Abs(w * yc - x * h) * yf
                     THEN yf ELSE yc
    IN  IF x >= w /\ y >= h THEN size
        ELSE IF x * h >= w * y
             THEN <<IF newx < 1 THEN 1 ELSE newx, y>>
             ELSE <<x, IF newy < 1 THEN 1 ELSE newy>>

InvalidImage(step, message) ==
    [error |-> HTTPException(400, message, {}), step |-> step, ok |-> FALSE]

\* process_image with the try around Image.open alone: what fails later
\* escapes, and the framework answers 500.
process_image_open_only(body, content_type) ==
    IF body.kind # "image"
    THEN InvalidImage("decode", "Invalid image file: cannot identify image file")
    ELSE
    LET mode == IF body.mode \in {"RGBA", "P"} THEN "RGB" ELSE body.mode
        resize == body.size[1] > max_size[1] \/ body.size[2] > max_size[2]
        size == IF resize THEN thumbnail(body.size, max_size) ELSE body.size
        format_name == format_map(content_type)
    IN  IF body.truncated \/ mode \notin SaveModes(format_name)
        THEN [error |-> HTTPException(500, "Internal Server Error", {}),
              step |-> "escaped", ok |-> FALSE]
        ELSE [ok |-> TRUE,
              image_data |-> [size |-> size, mode |-> mode, format |-> format_name]]

\* process_image: every failure of a step is caught and raised again as an
\* HTTPException 400 "Invalid image file: <cause>".  body is what the bytes
\* hold: [kind |-> "garbage"], or [kind |-> "image", mode, size, truncated]
\* (a truncated file opens, and fails when its pixels are first loaded).
process_image(body, content_type) ==
    IF body.kind # "image"
    THEN InvalidImage("decode", "Invalid image file: cannot identify image file")
    ELSE
    LET convert == body.mode \in {"RGBA", "P"}
        mode == IF convert THEN "RGB" ELSE body.mode
        resize == body.size[1] > max_size[1] \/ body.size[2] > max_size[2]
        size == IF resize THEN thumbnail(body.size, max_size) ELSE body.size
        format_name == format_map(content_type)
    IN  IF convert /\ body.truncated
        THEN InvalidImage("convert", "Invalid image file: image file is truncated")
        ELSE IF resize /\ body.truncated
        THEN InvalidImage("resize", "Invalid image file: image file is truncated")
        ELSE IF body.truncated
        THEN InvalidImage("save", "Invalid image file: image file is truncated")
        ELSE IF mode \notin SaveModes(format_name)
        THEN InvalidImage("save", "Invalid image file: cannot write mode")
        ELSE [ok |-> TRUE,
              image_data |-> [size |-> size, mode |-> mode, format |-> format_name]]

ImageResponse(image) ==
    [status |-> 200, id |-> image.id, content_type |-> image.content_type,
     image_data |-> image.image_data, is_private |-> image.is_private,
     created_at |-> image.created_at]

\* ------------------------------------------------------- protected requests
\* Requests admitted to upload but not yet answered (they may insert).
Uploading == {p \in Procs : pc[p] = "upload"}

\* A request to a protected route: the dependency get_current_user runs first
\* and the handler only if it returns a user.
authenticate(p, op, credentials, arg) ==
    /\ Idle(p)
    /\ op = "upload" => imgCount + Cardinality(Uploading) < MaxUploads
    /\ req' = [req EXCEPT ![p] = [credentials |-> credentials, op |-> op, arg |-> arg]]
    /\ \E outcome \in Depends(credentials, now) :
         IF "error" \in DOMAIN outcome
         THEN /\ resp' = [resp EXCEPT ![p] = outcome.error]
              /\ pc' = [pc EXCEPT ![p] = "done"]
              /\ cur' = [cur EXCEPT ![p] = None]
         ELSE /\ resp' = [resp EXCEPT ![p] = None]
              /\ pc' = [pc EXCEPT ![p] = op]
              /\ cur' = [cur EXCEPT ![p] = outcome.user]
    /\ UNCHANGED <<users, images, now, imgCount>>

\* ------------------------------------------------------------------ upload
\* The gates of upload_image with the size check ahead of the type check.
upload_gates_size_first(file) ==
    IF file.length > MAX_FILE_SIZE
    THEN [error |-> HTTPException(400, "File too large. Maximum size is 10MB.", {}),
          ok |-> FALSE]
    ELSE IF file.content_type \notin allowed_types
    THEN [error |-> HTTPException(400,
              "Invalid file type. Only JPEG, PNG, GIF, and WebP are allowed.", {}),
          ok |-> FALSE]
    ELSE process_image(file.body, file.content_type)

\* The gates of upload_image with >= in the size check.
upload_gates_inclusive(file) ==
    IF file.content_type \notin allowed_types
    THEN [error |-> HTTPException(400,
              "Invalid file type. Only JPEG, PNG, GIF, and WebP are allowed.", {}),
          ok |-> FALSE]
    ELSE IF file.length >= MAX_FILE_SIZE
    THEN [error |-> HTTPException(400, "File too large. Maximum size is 10MB.", {}),
          ok |-> FALSE]
    ELSE process_image(file.body, file.content_type)

\* upload_image up to the record: the type check, the size check on the bytes
\* read, then process_image; the first gate that fails ends the request.
upload_gates(file) ==
    IF file.content_type \notin allowed_types
    THEN [error |-> HTTPException(400,
              "Invalid file type. Only JPEG, PNG, GIF, and WebP are allowed.", {}),
          ok |-> FALSE]
    ELSE IF file.length > MAX_FILE_SIZE
    THEN [error |-> HTTPException(400, "File too large. Maximum size is 10MB.", {}),
          ok |-> FALSE]
    ELSE process_image(file.body, file.content_type)

upload_image(p) ==
    /\ pc[p] = "upload"
    /\ LET file == req[p].arg.file
           gates == upload_gates(file)
           image_item == [id |-> imgCount + 1,
                          content_type |-> file.content_type,
                          image_data |-> gates.image_data,
                          is_private |-> req[p].arg.is_private,
                          created_at |-> now,
                          user_id |-> cur[p].id]
       IN  IF ~gates.ok
           THEN /\ resp' = [resp EXCEPT ![p] = gates.error]
                /\ UNCHANGED <<images, imgCount>>
           ELSE /\ images' = Append(images, image_item)
                /\ imgCount' = imgCount + 1
                /\ resp' = [resp EXCEPT ![p] = ImageResponse(image_item)]
    /\ pc' = [pc EXCEPT ![p] = "done"]
    /\ UNCHANGED <<users, now, req, cur>>

\* -------------------------------------------------------------------- list
LIST_LIMIT == 100

\* The cursor without its sort: the documents in the order of the collection.
natural_order(docs) == docs

\* sort("created_at", -1): the documents by created_at descending, those of
\* one timestamp in the order of the collection.  newest_first takes the
\* documents of the latest of the timestamps `times`, then those of the rest.
RECURSIVE newest_first(_, _)
newest_first(docs, times) ==
    IF times = {} THEN <<>>
    ELSE LET latest == CHOOSE t \in times : \A u \in times : u <= t
             At(doc) == doc.created_at = latest
         IN  SelectSeq(docs, At) \o newest_first(docs, times \ {latest})

SortDesc(docs) == newest_first(docs, {docs[i].created_at : i \in DOMAIN docs})

to_list(docs, length) ==
    IF Len(docs) <= length THEN docs ELSE SubSeq(docs, 1, length)

\* The query of get_images without the user_id of the caller.
find_images_of_anyone(user_id, private) ==
    LET Match(i) == private # None => i.is_private = private.value
    IN  to_list(SortDesc(SelectSeq(images, Match)), LIST_LIMIT)

\* The query of get_images without the is_private of the request.
find_images_unfiltered(user_id, private) ==
    LET Match(i) == i.user_id = user_id
    IN  to_list(SortDesc(SelectSeq(images, Match)), LIST_LIMIT)

find_images(user_id, private) ==
    LET Match(i) == /\ i.user_id = user_id
                    /\ private # None => i.is_private = private.value
    IN  to_list(SortDesc(SelectSeq(images, Match)), LIST_LIMIT)

get_images(p) ==
    /\ pc[p] = "list"
    /\ LET found == find_images(cur[p].id, req[p].arg.private)
       IN  resp' = [resp EXCEPT ![p] =
               [status |-> 200,
                body |-> [k \in 1..Len(found) |-> ImageResponse(found[k])]]]
    /\ pc' = [pc EXCEPT ![p] = "done"]
    /\ UNCHANGED <<users, images, now, imgCount, req, cur>>

\* ------------------------------------------------------------------ delete
\* delete_one with a result that counts one document whatever it found.
delete_one_counts_always(docs, matching) ==
    IF matching = {} THEN [docs |-> docs, deleted_count |-> 1]
    ELSE LET i == FirstIndex(matching)
         IN  [docs |-> SubSeq(docs, 1, i - 1) \o SubSeq(docs, i + 1, Len(docs)),
              deleted_count |-> 1]

\* delete_one: removes the first document that matches, if there is one.
delete_one(docs, matching) ==
    IF matching = {} THEN [docs |-> docs, deleted_count |-> 0]
    ELSE LET i == FirstIndex(matching)
         IN  [docs |-> SubSeq(docs, 1, i - 1) \o SubSeq(docs, i + 1, Len(docs)),
              deleted_count |-> 1]

\* delete_image with a query on the id alone.
delete_image_by_id(p) ==
    /\ pc[p] = "delete"
    /\ LET matching == {i \in DOMAIN images : images[i].id = req[p].arg.image_id}
           result == delete_one(images, matching)
       IN  /\ images' = result.docs
           /\ IF result.deleted_count = 0
              THEN resp' = [resp EXCEPT ![p] = HTTPException(404, "Image not found", {})]
              ELSE resp' = [resp EXCEPT ![p] =
                       [status |-> 200, message |-> "Image deleted successfully"]]
    /\ pc' = [pc EXCEPT ![p] = "done"]
    /\ UNCHANGED <<users, now, imgCount, req, cur>>

delete_image(p) ==
    /\ pc[p] = "delete"
    /\ LET matching == {i \in DOMAIN images : /\ images[i].id = req[p].arg.image_id
                                               /\ images[i].user_id = cur[p].id}
           result == delete_one(images, matching)
       IN  /\ images' = result.docs
           /\ IF result.deleted_count = 0
              THEN resp' = [resp EXCEPT ![p] = HTTPException(404, "Image not found", {})]
              ELSE resp' = [resp EXCEPT ![p] =
                       [status |-> 200, message |-> "Image deleted successfully"]]
    /\ pc' = [pc EXCEPT ![p] = "done"]
    /\ UNCHANGED <<users, now, imgCount, req, cur>>

\* ------------------------------------------------------------------- clock
\* The clock moves on to a later instant t.
Tick(t) ==
    /\ now < t
    /\ t <= MaxTime
    /\ now' = t
    /\ UNCHANGED <<users, images, imgCount, pc, req, cur, resp>>

\* ----------------------------------------------------------- specification
Init ==
    /\ users = <<>>
    /\ images = <<>>
    /\ now = 0
    /\ imgCount = 0
    /\ pc = [p \in Procs |-> "idle"]
    /\ req = [p \in Procs |-> None]
    /\ cur = [p \in Procs |-> None]
    /\ resp = [p \in Procs |-> None]

\* ------------------------------------------------------------------ inputs
Privates == {None, [value |-> TRUE], [value |-> FALSE]}

File(content_type, length, body) ==
    [content_type |-> content_type, body |-> body, length |-> length]

Picture(mode, size) ==
    [size |-> size, kind |-> "image", mode |-> mode, truncated |-> FALSE]

Account(username, email, password) ==
    [password |-> password, username |-> username, email |-> email]

\* The requests of a behaviour, over given input sets.
Register(P, accounts) ==
    \E p \in P, a \in accounts : register_lookup(p, a.username, a.email, a.password)

Login(P, accounts) ==
    \E p \in P, a \in accounts : login(p, a.username, a.password)

Upload(P, credentials, files) ==
    \E p \in P, c \in credentials, f \in files, b \in BOOLEAN :
        authenticate(p, "upload", c, [is_private |-> b, file |-> f])

List(P, credentials) ==
    \E p \in P, c \in credentials, private \in Privates :
        authenticate(p, "list", c, [private |-> private])

Delete(P, credentials) ==
    \E p \in P, c \in credentials, i \in 1..MaxUploads :
        authenticate(p, "delete", c, [image_id |-> i])

\* ------------------------------------------- the whole API, two requests at once
TestAccounts ==
    {Account("alice", "a@x.com", "Pw123!"), Account("bob", "b@x.com", "Pw123!")}

TestCredentials ==
    {create_access_token([sub |-> u], timedelta(ACCESS_TOKEN_EXPIRE_MINUTES), 0) :
                    u \in Usernames}

TestFiles ==
    {File("image/jpeg", 1024, Picture("RGB", <<100, 100>>))}

Next ==
    \/ Register(Procs, TestAccounts)
    \/ \E p \in Procs : register_insert(p)
    \/ Login(Procs, TestAccounts)
    \/ Upload(Procs, TestCredentials, TestFiles)
    \/ List(Procs, TestCredentials)
    \/ Delete(Procs, TestCredentials)
    \/ \E p \in Procs : upload_image(p)
    \/ \E p \in Procs : get_images(p)
    \/ \E p \in Procs : delete_image(p)
    \/ Tick(ACCESS_TOKEN_EXPIRE_MINUTES + 1)

Spec == Init /\ [][Next]_vars

\* --------------------------------------- accounts alone, two requests at once
Accounts == [password : Passwords, username : Usernames, email : Emails]

AccountNext ==
    \/ Register(Procs, Accounts)
    \/ \E p \in Procs : register_insert(p)
    \/ Login(Procs, Accounts)
    \/ \E t \in {1, ACCESS_TOKEN_EXPIRE_MINUTES, ACCESS_TOKEN_EXPIRE_MINUTES + 1} : Tick(t)

AccountSpec == Init /\ [][AccountNext]_vars

\* ------------------------------------ registrations alone, concurrent
RegisterNext ==
    \/ Register(Procs, [password : {"Pw123!"}, username : Usernames, email : Emails])
    \/ \E p \in Procs : register_insert(p)

RegisterSpec == Init /\ [][RegisterNext]_vars

\* ------------------------------- the gate, one request at a time, any credential
GateFiles ==
    {File("image/jpeg", 1024, Picture("RGB", <<100, 100>>)),
     File("text/plain", 1024, [kind |-> "garbage"])}

GateNext ==
    \/ Register({1}, TestAccounts)
    \/ register_insert(1)
    \/ Login({1}, TestAccounts)
    \/ Upload({1}, Credentials, GateFiles)
    \/ List({1}, Credentials)
    \/ Delete({1}, Credentials)
    \/ upload_image(1)
    \/ get_images(1)
    \/ delete_image(1)
    \/ Tick(ACCESS_TOKEN_EXPIRE_MINUTES + 1)

GateSpec == Init /\ [][GateNext]_vars

\* ------------------------------------ uploads, one at a time, of any kind of file
Truncated(picture) == [picture EXCEPT !.truncated = TRUE]

Bodies ==
    {[kind |-> "garbage"],
     Picture("RGB", <<100, 100>>),
     Picture("RGBA", <<3000, 3000>>),
     Picture("LA", <<100, 100>>),
     Truncated(Picture("RGB", <<100, 100>>)),
     Truncated(Picture("RGB", <<3000, 3000>>)),
     Truncated(Picture("P", <<100, 100>>))}

PipelineFiles ==
    {File(c, n, b) :
        c \in {"image/jpeg", "image/png", "IMAGE/PNG", "text/plain"},
        n \in {1024, MAX_FILE_SIZE, MAX_FILE_SIZE + 1},
        b \in Bodies}

AliceToken ==
    create_access_token([sub |-> "alice"], timedelta(ACCESS_TOKEN_EXPIRE_MINUTES), 0)

PipelineNext ==
    \/ Register({1}, {Account("alice", "a@x.com", "Pw123!")})
    \/ register_insert(1)
    \/ Upload({1}, {AliceToken}, PipelineFiles)
    \/ upload_image(1)

PipelineSpec == Init /\ [][PipelineNext]_vars

\* ------------------------------------ uploads, one at a time, of any dimensions
Sizes ==
    {<<100, 100>>, <<1920, 1080>>, <<1921, 1080>>, <<1920, 1081>>, <<1921, 1081>>,
     <<3000, 3000>>, <<4000, 3000>>, <<3001, 2001>>, <<1, 5000>>, <<5000, 1>>,
     <<1081, 1921>>}

ResizeFiles == {File("image/png", 1024, Picture("RGB", z)) : z \in Sizes}

ResizeNext ==
    \/ Register({1}, {Account("alice", "a@x.com", "Pw123!")})
    \/ register_insert(1)
    \/ Upload({1}, {AliceToken}, ResizeFiles)
    \/ upload_image(1)

ResizeSpec == Init /\ [][ResizeNext]_vars

\* ----------------------- create_access_token with any lifetime, and the gate
\* A caller issues one token for `sub` with the lifetime expires_delta.
issue_token(p, sub, expires_delta) ==
    /\ pc[p] = "idle"
    /\ req' = [req EXCEPT ![p] = [expires_delta |-> expires_delta,
                                   sub |-> sub, op |-> "token",
                                   issued_at |-> now]]
    /\ resp' = [resp EXCEPT ![p] =
           [access_token |-> create_access_token([sub |-> sub], expires_delta, now)]]
    /\ pc' = [pc EXCEPT ![p] = "issued"]
    /\ UNCHANGED <<users, images, now, imgCount, cur>>

\* The token is shown to get_current_user; cur keeps when, and what came of it.
validate_token(p) ==
    /\ pc[p] = "issued"
    /\ \E outcome \in get_current_user(resp[p].access_token, now) :
         cur' = [cur EXCEPT ![p] = [outcome |-> outcome, at |-> now]]
    /\ UNCHANGED <<users, images, now, imgCount, pc, req, resp>>

Registered(id, account) ==
    [hashed_password |-> get_password_hash(account.password, "s1"),
     id |-> id, username |-> account.username, email |-> account.email]

TokenInit ==
    /\ users = <<Registered(1, Account("alice", "a@x.com", "Pw123!")),
                 Registered(2, Account("bob", "b@x.com", "Pw123!"))>>
    /\ images = <<>>
    /\ now = 0
    /\ imgCount = 0
    /\ pc = [p \in Procs |-> "idle"]
    /\ req = [p \in Procs |-> None]
    /\ cur = [p \in Procs |-> None]
    /\ resp = [p \in Procs |-> None]

Lifetimes == {None, timedelta(0), timedelta(1), timedelta(ACCESS_TOKEN_EXPIRE_MINUTES)}

Instants == {1, 2, DEFAULT_EXPIRE_MINUTES, DEFAULT_EXPIRE_MINUTES + 1,
             ACCESS_TOKEN_EXPIRE_MINUTES, ACCESS_TOKEN_EXPIRE_MINUTES + 1}

TokenNext ==
    \/ \E u \in Usernames, d \in Lifetimes : issue_token(1, u, d)
    \/ validate_token(1)
    \/ Login({2}, TestAccounts)
    \/ \E t \in Instants : Tick(t)

TokenSpec == TokenInit /\ [][TokenNext]_vars

\* ------------------------------- lists and deletes over a store of many images
\* The store after Stored uploads, four a minute, by alice but for every
\* fiftieth, which is bob's; every third is private.
Stored == 104

UploadedAt(k) == k \div 4

ListInit ==
    /\ users = <<Registered(1, Account("alice", "a@x.com", "Pw123!")),
                 Registered(2, Account("bob", "b@x.com", "Pw123!"))>>
    /\ images = [k \in 1..Stored |->
                    [id |-> k,
                     content_type |-> "image/jpeg",
                     image_data |-> [size |-> <<100, 100>>, mode |-> "RGB",
                                     format |-> "JPEG"],
                     is_private |-> (k % 3 = 0),
                     created_at |-> UploadedAt(k),
                     user_id |-> IF k % 50 = 0 THEN 2 ELSE 1]]
    /\ now = UploadedAt(Stored)
    /\ imgCount = Stored
    /\ pc = [p \in Procs |-> "idle"]
    /\ req = [p \in Procs |-> None]
    /\ cur = [p \in Procs |-> None]
    /\ resp = [p \in Procs |-> None]

ListNext ==
    \/ List({1}, TestCredentials)
    \/ Delete({1}, TestCredentials)
    \/ get_images(1)
    \/ delete_image(1)
    \/ Tick(ACCESS_TOKEN_EXPIRE_MINUTES + 1)

ListSpec == ListInit /\ [][ListNext]_vars

\* ------------------- uploads and deletes of two registered users, concurrent
ImageInit ==
    /\ users = <<Registered(1, Account("alice", "a@x.com", "Pw123!")),
                 Registered(2, Account("bob", "b@x.com", "Pw123!"))>>
    /\ images = <<>>
    /\ now = 0
    /\ imgCount = 0
    /\ pc = [p \in Procs |-> "idle"]
    /\ req = [p \in Procs |-> None]
    /\ cur = [p \in Procs |-> None]
    /\ resp = [p \in Procs |-> None]

ImageNext ==
    \/ Upload(Procs, TestCredentials, TestFiles)
    \/ Delete(Procs, TestCredentials)
    \/ \E p \in Procs : upload_image(p)
    \/ \E p \in Procs : delete_image(p)

ImageSpec == ImageInit /\ [][ImageNext]_vars

\* ================================================================== claims
\* The step in which request slot p takes a new request of kind op.
Arrives(p, ops) ==
    /\ Idle(p)
    /\ req'[p] # None
    /\ req'[p].op \in ops
    /\ <<pc'[p], req'[p], resp'[p], cur'[p]>> # <<pc[p], req[p], resp[p], cur[p]>>

\* The step in which the upload handler of p runs.
UploadStep(p) == pc[p] = "upload" /\ pc'[p] = "done"

Finished(p, op) == pc[p] = "done" /\ req[p] # None /\ req[p].op = op

UserIndexes == 1..Len(users)

\* C1: in every reachable state of the users collection, whatever the
\* interleaving of concurrent register requests, no two user records share a
\* username and no two share an email.
C1_UniqueUsernameAndEmail ==
    \A i, j \in UserIndexes :
        i # j => /\ users[i].username # users[j].username
                 /\ users[i].email # users[j].email

\* C2: a register request whose username or whose email (either alone) is that
\* of an existing user fails with status 400 "Username or email already
\* registered", carries no token and leaves the users collection unchanged.
C2_DuplicateRegisterConflict ==
    [][\A p \in Procs :
         (/\ Arrives(p, {"register"})
          /\ \E i \in UserIndexes : \/ users[i].username = req'[p].username
                                    \/ users[i].email = req'[p].email)
         => /\ pc'[p] = "done"
            /\ resp'[p].status = 400
            /\ resp'[p].detail = "Username or email already registered"
            /\ "access_token" \notin DOMAIN resp'[p]
            /\ users' = users]_vars

\* Both collisions answered: one request collides on the username alone, the
\* other on the email alone.
C2_Witness ==
    \E p, q \in Procs :
        /\ Finished(p, "register") /\ Finished(q, "register")
        /\ resp[p].status = 400 /\ resp[q].status = 400
        /\ \E i \in UserIndexes : users[i].username = req[p].username
        /\ \A i \in UserIndexes : users[i].email # req[p].email
        /\ \E i \in UserIndexes : users[i].email = req[q].email
        /\ \A i \in UserIndexes : users[i].username # req[q].username

\* C3: a register request that succeeds has added exactly one user record, with
\* its username and email, and returns a token whose subject is that username
\* and which get_current_user resolves (until it expires) to that new record.
C3_RegisterTokenResolvesToNewUser ==
    \A p \in Procs :
        (Finished(p, "register") /\ resp[p].status = 200)
        => LET token == resp[p].access_token
               created == {i \in UserIndexes : users[i].id = resp[p].user.id}
           IN  /\ Cardinality(created) = 1
               /\ \A i \in created : /\ users[i].username = req[p].username
                                     /\ users[i].email = req[p].email
               /\ token.payload.sub = req[p].username
               /\ now < token.payload.exp
                  => \A outcome \in get_current_user(token, now) :
                        /\ "user" \in DOMAIN outcome
                        /\ outcome.user.id = resp[p].user.id

\* C4: login answers 200 with a token for the username exactly when some user
\* has that username and a hash the password verifies against; otherwise, for
\* a wrong password as for an unknown username, the one 401 "Incorrect username
\* or password"; and it never changes the store.
C4_LoginIffPasswordMatches ==
    [][\A p \in Procs :
         Arrives(p, {"login"})
         => LET matches == \E i \in UserIndexes :
                              /\ users[i].username = req'[p].username
                              /\ verify_password(req'[p].password,
                                                 users[i].hashed_password)
            IN  /\ matches => /\ resp'[p].status = 200
                              /\ resp'[p].access_token.payload.sub = req'[p].username
                /\ ~matches => resp'[p] = HTTPException(401,
                                   "Incorrect username or password", WWWAuthenticate)
                /\ users' = users
                /\ images' = images]_vars

\* C5: a token issued at time t for subject S with lifetime ttl resolves to S at
\* the gate at every time before t + ttl and is rejected with 401 at every time
\* after t + ttl.
C5_TokenValidUntilExpiry ==
    \A p \in Procs :
        (pc[p] = "issued" /\ cur[p] # None /\ req[p].expires_delta # None)
        => LET expiry == req[p].issued_at + req[p].expires_delta.minutes
           IN  /\ cur[p].at < expiry
                  => /\ "user" \in DOMAIN cur[p].outcome
                     /\ cur[p].outcome.user.username = req[p].sub
               /\ cur[p].at > expiry
                  => cur[p].outcome = [error |-> credentials_exception]

Protected == {"upload", "list", "delete"}

\* C6: a request to upload, list or delete that carries no bearer credential is
\* answered 401 and its handler does not run.
C6_MissingCredentialUnauthorized ==
    \A p \in Procs :
        (req[p] # None /\ req[p].op \in Protected /\ req[p].credentials = None)
        => /\ pc[p] = "done"
           /\ resp[p].status = 401
           /\ cur[p] = None

\* Why the gate turns a token down, if it does.
BadSignature(c) == c.sig # SECRET_KEY
Expired(c) == c.sig = SECRET_KEY /\ now > c.payload.exp
NoSubject(c) == c.sig = SECRET_KEY /\ "sub" \notin DOMAIN c.payload
UnknownSubject(c) ==
    /\ c.sig = SECRET_KEY
    /\ "sub" \in DOMAIN c.payload
    /\ \A i \in UserIndexes : users[i].username # c.payload.sub

\* C7: on every protected route a token with a bad signature, an expired token,
\* a token without subject and a good token for a subject that is no user all get
\* the same response, 401 "Could not validate credentials", and the users and
\* images collections stay as they are.
C7_UniformUnauthorized ==
    [][\A p \in Procs :
         (/\ Arrives(p, Protected)
          /\ "sig" \in DOMAIN req'[p].credentials
          /\ LET c == req'[p].credentials
             IN  BadSignature(c) \/ Expired(c) \/ NoSubject(c) \/ UnknownSubject(c))
         => /\ pc'[p] = "done"
            /\ resp'[p] = HTTPException(401, "Could not validate credentials",
                                        WWWAuthenticate)
            /\ users' = users
            /\ images' = images]_vars

\* A good, unexpired token for a subject that is no user was turned down, with
\* images in the store.
C7_Witness ==
    \E p \in Procs :
        /\ pc[p] = "done" /\ req[p] # None /\ req[p].op \in Protected
        /\ "sig" \in DOMAIN req[p].credentials
        /\ UnknownSubject(req[p].credentials)
        /\ now < req[p].credentials.payload.exp
        /\ resp[p].status = 401
        /\ images # <<>>
        /\ users # <<>>

ClaimedTypes == {"image/jpeg", "image/jpg", "image/png", "image/gif", "image/webp"}

\* C8: an authenticated upload whose declared content type is not exactly one
\* of the five image types is answered 400 "Invalid file type...", whatever its
\* bytes and its size, and stores no image record.
C8_InvalidFileTypeFirst ==
    [][\A p \in Procs :
         (UploadStep(p) /\ req[p].arg.file.content_type \notin ClaimedTypes)
         => /\ resp'[p].status = 400
            /\ resp'[p].detail =
                 "Invalid file type. Only JPEG, PNG, GIF, and WebP are allowed."
            /\ images' = images]_vars

\* An oversized, well-formed picture declared with a type off the list was
\* turned down for its type.
C8_Witness ==
    \E p \in Procs :
        /\ Finished(p, "upload") /\ cur[p] # None
        /\ req[p].arg.file.content_type \notin ClaimedTypes
        /\ req[p].arg.file.length > 10 * 1024 * 1024
        /\ req[p].arg.file.body.kind = "image"
        /\ ~req[p].arg.file.body.truncated
        /\ resp[p].status = 400
        /\ images # <<>>

\* C9: an authenticated upload with an allowed declared type is answered 400
\* "File too large..." and stores nothing exactly when its length is strictly
\* more than 10 * 1024 * 1024 bytes, also when the bytes are a good picture.
C9_FileTooLargeIffOverLimit ==
    [][\A p \in Procs :
         (UploadStep(p) /\ req[p].arg.file.content_type \in ClaimedTypes)
         => ((/\ resp'[p].status = 400
              /\ resp'[p].detail = "File too large. Maximum size is 10MB."
              /\ images' = images)
             <=> req[p].arg.file.length > 10 * 1024 * 1024)]_vars

\* A picture of exactly 10 * 1024 * 1024 bytes was stored.
C9_Witness ==
    \E p \in Procs :
        /\ Finished(p, "upload") /\ cur[p] # None
        /\ req[p].arg.file.length = 10 * 1024 * 1024
        /\ resp[p].status = 200
        /\ \E k \in 1..Len(images) : images[k].id = resp[p].id

InvalidImageDetails ==
    {"Invalid image file: cannot identify image file",
     "Invalid image file: image file is truncated",
     "Invalid image file: cannot write mode"}

\* C10: an authenticated upload of an allowed type and within the size limit
\* whose decode, conversion, resize or re-encode fails is answered 400 "Invalid
\* image file: ..." and nothing else, with the images collection unchanged; and
\* a record enters the collection only in an upload that passed every gate.
C10_InvalidImageFileOnly ==
    [][/\ \A p \in Procs :
            (/\ UploadStep(p)
             /\ req[p].arg.file.content_type \in ClaimedTypes
             /\ req[p].arg.file.length <= 10 * 1024 * 1024
             /\ ~process_image(req[p].arg.file.body, req[p].arg.file.content_type).ok)
            => /\ resp'[p].status = 400
               /\ resp'[p].detail \in InvalidImageDetails
               /\ images' = images
       /\ Len(images') > Len(images)
            => \E p \in Procs :
                  /\ UploadStep(p)
                  /\ req[p].arg.file.content_type \in ClaimedTypes
                  /\ req[p].arg.file.length <= 10 * 1024 * 1024
                  /\ process_image(req[p].arg.file.body, req[p].arg.file.content_type).ok
                  /\ resp'[p].status = 200]_vars

\* A picture that opens and then fails in the resize was turned down, with
\* images in the store.
C10_Witness ==
    \E p \in Procs :
        /\ Finished(p, "upload") /\ cur[p] # None
        /\ req[p].arg.file.content_type \in ClaimedTypes
        /\ req[p].arg.file.length <= 10 * 1024 * 1024
        /\ req[p].arg.file.body.kind = "image"
        /\ req[p].arg.file.body.truncated
        /\ req[p].arg.file.body.size[1] > 1920
        /\ resp[p].status = 400
        /\ resp[p].detail = "Invalid image file: image file is truncated"
        /\ images # <<>>

\* C11: the picture an upload stores is at most 1920 wide and 1080 high; a
\* picture that already fits is stored with its own dimensions, and a larger one
\* with dimensions in its ratio w:h, one side being the other scaled by w:h to
\* within one pixel.
C11_StoredWithinBoundsKeepingRatio ==
    [][\A p \in Procs :
         (UploadStep(p) /\ images' # images)
         => LET w == req[p].arg.file.body.size[1]
                h == req[p].arg.file.body.size[2]
                stored == images'[Len(images')].image_data.size
            IN  /\ stored[1] <= 1920
                /\ stored[2] <= 1080
                /\ stored[1] >= 1
                /\ stored[2] >= 1
                /\ (w <= 1920 /\ h <= 1080) => stored = <<w, h>>
                /\ ~(w <= 1920 /\ h <= 1080)
                   => \/ Abs(stored[1] * h - stored[2] * w) < h
                      \/ Abs(stored[2] * w - stored[1] * h) < w]_vars

\* A picture one pixel too wide was stored smaller, next to one that fitted
\* and was stored as it came.
C11_Witness ==
    \E p \in Procs :
        /\ Finished(p, "upload") /\ cur[p] # None
        /\ resp[p].status = 200
        /\ req[p].arg.file.body.size = <<1921, 1080>>
        /\ resp[p].image_data.size = <<1920, 1079>>
        /\ \E k \in 1..Len(images) : images[k].image_data.size = <<1920, 1080>>

\* The step in which the list handler of p runs, and the one of delete.
ListStep(p) == pc[p] = "list" /\ pc'[p] = "done"

DeleteStep(p) == pc[p] = "delete" /\ pc'[p] = "done"

ImageIndexes == 1..Len(images)

\* The user_id of the stored record with this id, or None.
owner_of(image_id) ==
    IF \E i \in ImageIndexes : images[i].id = image_id
    THEN (CHOOSE image \in {images[i] : i \in ImageIndexes} : image.id = image_id).user_id
    ELSE None

\* C12: whatever users register, log in, upload, list and delete, a record
\* enters the store under the id of the user its uploader authenticated as,
\* keeps that user_id as long as it is stored, and every record a list returns
\* is a stored record under the id of the user the caller authenticated as.
C12_ListReturnsOnlyOwnRecords ==
    [][/\ \A p \in Procs :
            ListStep(p)
            => \A k \in 1..Len(resp'[p].body) :
                  owner_of(resp'[p].body[k].id) = cur[p].id
       /\ \A p \in Procs :
            (UploadStep(p) /\ images' # images)
            => /\ images'[Len(images')].user_id = cur[p].id
               /\ images'[Len(images')].id = resp'[p].id
       /\ \A i \in ImageIndexes, j \in 1..Len(images') :
            images'[j].id = images[i].id => images'[j].user_id = images[i].user_id]_vars

\* A list came back with a record of the caller while the store also holds a
\* record of another user.
C12_Witness ==
    \E p \in Procs :
        /\ Finished(p, "list") /\ cur[p] # None
        /\ resp[p].status = 200
        /\ Len(resp[p].body) = 1
        /\ \E i \in ImageIndexes : /\ images[i].id = resp[p].body[1].id
                                    /\ images[i].user_id = cur[p].id
        /\ \E i \in ImageIndexes : images[i].user_id # cur[p].id

\* The stored records of the user that a list with this filter asks for.
Matching(user_id, private) ==
    {images[i] : i \in {j \in ImageIndexes :
        /\ images[j].user_id = user_id
        /\ private = [value |-> TRUE] => images[j].is_private
        /\ private = [value |-> FALSE] => ~images[j].is_private}}

\* C13: a list with the filter true returns records of the caller that are
\* private and no others, with the filter false records of the caller that are
\* not private and no others, and without filter both kinds; and as long as no
\* more than 100 records match, it returns every one of them, once.
C13_ListFilter ==
    [][\A p \in Procs :
         ListStep(p)
         => LET private == req[p].arg.private
                body == resp'[p].body
                matching == Matching(cur[p].id, private)
            IN  /\ resp'[p].status = 200
                /\ \A k \in 1..Len(body) :
                      /\ \E image \in matching : body[k] = ImageResponse(image)
                      /\ private = [value |-> TRUE] => body[k].is_private
                      /\ private = [value |-> FALSE] => ~body[k].is_private
                /\ Cardinality(matching) <= 100
                   => /\ \A image \in matching :
                            \E k \in 1..Len(body) : body[k] = ImageResponse(image)
                      /\ Len(body) = Cardinality(matching)
                /\ images' = images]_vars

\* A caller with a private and a public record listed with the filter true, and
\* got the private one alone.
C13_Witness ==
    \E p \in Procs :
        /\ Finished(p, "list") /\ cur[p] # None
        /\ req[p].arg.private = [value |-> TRUE]
        /\ resp[p].status = 200
        /\ Len(resp[p].body) = 1
        /\ resp[p].body[1].is_private
        /\ Cardinality(Matching(cur[p].id, None)) = 2
        /\ Cardinality(Matching(cur[p].id, [value |-> FALSE])) = 1

\* C16: a list returns records of the caller that match its filter, each once,
\* newest first by created_at, and at most 100 of them: all of them when no more
\* than 100 match, and otherwise 100 none of which is older than a matching
\* record left out.
C16_NewestFirstAtMostHundred ==
    [][\A p \in Procs :
         ListStep(p)
         => LET body == resp'[p].body
                matching == Matching(cur[p].id, req[p].arg.private)
                returned == {body[k].id : k \in 1..Len(body)}
            IN  /\ \A k \in 1..Len(body) :
                      \E image \in matching : body[k] = ImageResponse(image)
                /\ Cardinality(returned) = Len(body)
                /\ \A k \in 1..(Len(body) - 1) :
                      body[k].created_at >= body[k + 1].created_at
                /\ Len(body) <= 100
                /\ Cardinality(matching) <= 100 => Len(body) = Cardinality(matching)
                /\ Cardinality(matching) > 100
                   => /\ Len(body) = 100
                      /\ \A image \in matching :
                            image.id \notin returned
                            => \A k \in 1..Len(body) :
                                  body[k].created_at >= image.created_at]_vars

\* A caller with more than 100 records listed them and got 100, the first
\* newer than the last.
C16_Witness ==
    \E p \in Procs :
        /\ Finished(p, "list") /\ cur[p] # None
        /\ resp[p].status = 200
        /\ Cardinality(Matching(cur[p].id, req[p].arg.private)) > 100
        /\ Len(resp[p].body) = 100
        /\ resp[p].body[1].created_at > resp[p].body[100].created_at

StoredIds == {images[i].id : i \in ImageIndexes}

DeleteSucceeded == [status |-> 200, message |-> "Image deleted successfully"]

\* C14: a delete by the owner of a stored image removes that record and no
\* other and answers success; an id once removed is never stored again, and a
\* delete of an id that is not stored answers 404 "Image not found" and removes
\* nothing; and of the delete requests for one id, however they interleave, at
\* most one is answered success.
C14_DeleteOnce ==
    [][/\ \A p \in Procs :
            DeleteStep(p)
            => LET image_id == req[p].arg.image_id
                   Other(image) == image.id # image_id
               IN  /\ (image_id \in StoredIds /\ owner_of(image_id) = cur[p].id)
                      => /\ resp'[p] = DeleteSucceeded
                         /\ images' = SelectSeq(images, Other)
                         /\ Len(images') = Len(images) - 1
                   /\ image_id \notin StoredIds
                      => /\ resp'[p] = HTTPException(404, "Image not found", {})
                         /\ images' = images
       /\ \A image_id \in 1..imgCount :
            image_id \notin StoredIds => image_id \notin {images'[i].id : i \in 1..Len(images')}
       /\ \A p, q \in Procs :
            (/\ p # q
             /\ pc'[p] = "done" /\ pc'[q] = "done"
             /\ req'[p] # None /\ req'[q] # None
             /\ req'[p].op = "delete" /\ req'[q].op = "delete"
             /\ req'[p].arg.image_id = req'[q].arg.image_id)
            => ~(resp'[p] = DeleteSucceeded /\ resp'[q] = DeleteSucceeded)]_vars

\* Two deletes of one stored image by its owner were in flight together; one
\* was answered success and the other 404.
C14_Witness ==
    \E p, q \in Procs :
        /\ Finished(p, "delete") /\ Finished(q, "delete")
        /\ cur[p] # None /\ cur[p] = cur[q]
        /\ req[p].arg.image_id = req[q].arg.image_id
        /\ req[p].arg.image_id <= imgCount
        /\ req[p].arg.image_id \notin StoredIds
        /\ resp[p] = DeleteSucceeded
        /\ resp[q] = HTTPException(404, "Image not found", {})

\* C15: a delete by an authenticated user of a stored image of another user is
\* answered 404 "Image not found", the very response to a delete of an id that
\* is not stored; it leaves the images collection as it was, and the record is
\* still in what a list returns to its owner.
C15_DeleteOfAnothersImageNotFound ==
    [][\A p \in Procs :
         DeleteStep(p)
         => LET image_id == req[p].arg.image_id
            IN  /\ (image_id \in StoredIds /\ owner_of(image_id) # cur[p].id)
                   => /\ resp'[p] = HTTPException(404, "Image not found", {})
                      /\ images' = images
                      /\ \E k \in DOMAIN find_images(owner_of(image_id), None)' :
                            find_images(owner_of(image_id), None)'[k].id = image_id
                /\ image_id \notin StoredIds
                   => resp'[p] = HTTPException(404, "Image not found", {})]_vars

\* A user asked to delete a stored image of another user and was answered 404.
C15_Witness ==
    \E p \in Procs :
        /\ Finished(p, "delete") /\ cur[p] # None
        /\ req[p].arg.image_id \in StoredIds
        /\ owner_of(req[p].arg.image_id) # cur[p].id
        /\ resp[p] = HTTPException(404, "Image not found", {})

\* C17: create_access_token puts now + ttl in the token as its expiry for every
\* ttl it is given, a ttl of zero too, and now + 15 minutes when it is given
\* none; and the token of every successful register and login expires exactly
\* 30 minutes after it was issued.
C17_TokenExpiry ==
    [][\A p \in Procs :
         /\ (pc[p] = "idle" /\ pc'[p] = "issued")
            => LET ttl == req'[p].expires_delta
                   exp == resp'[p].access_token.payload.exp
               IN  /\ ttl # None => exp = now + ttl.minutes
                   /\ ttl = None => exp = now + 15
         /\ (/\ pc[p] = "register_insert" \/ Arrives(p, {"login"})
             /\ pc'[p] = "done"
             /\ resp'[p].status = 200)
            => resp'[p].access_token.payload.exp = now + 30]_vars

\* The colour modes with an alpha channel, and those with a palette.
AlphaModes == {"RGBA", "LA"}

PaletteModes == {"P"}

\* C18: a picture whose mode has an alpha channel or a palette is re-encoded
\* and stored in mode RGB, a picture of any other mode in its own mode; so no
\* picture is re-encoded with an alpha channel.
C18_AlphaAndPaletteToRGB ==
    [][\A p \in Procs :
         (UploadStep(p) /\ images' # images)
         => LET mode == req[p].arg.file.body.mode
                encoded == images'[Len(images')].image_data.mode
            IN  /\ mode \in AlphaModes \cup PaletteModes => encoded = "RGB"
                /\ mode \notin AlphaModes \cup PaletteModes => encoded = mode
                /\ encoded \notin AlphaModes]_vars

====
